---- MODULE Spec2Model ----
(***************************************************************************)
(* Model of evpn-mh.py: the EVPN multihoming fabric builder.               *)
(*                                                                         *)
(* The pure helpers (_merge_port_configs, _roles_from_interfaces,          *)
(* _build_topology, _build_optic_port_config, _parse_static_routes,        *)
(* _parse_network_comment_directives) are operators computed the way the   *)
(* code computes them; create_fabric is a state machine whose steps are    *)
(* the external calls it issues, in program order, and a series of runs    *)
(* starts it again against what the controller has stored.                 *)
(***************************************************************************)
EXTENDS Integers, Sequences, FiniteSets, TLC

VARIABLES
    pc,            \* position of the program
    entries,       \* rows of the INTERFACES sheet (_parse_interfaces output)
    roles_res,     \* outcome of _roles_from_interfaces
    topo,          \* outcome of _build_topology
    old_cfg,       \* _merge_port_configs: current_port_config
    new_cfg,       \* _merge_port_configs: new_evpn_ports
    merged,        \* _merge_port_configs: return value
    field,         \* a route field: sequence of tokens / clauses
    parsed,        \* outcome of the route parsers
    mode,          \* create_fabric: "CREATE" / "UPDATE"
    gateway,       \* create_fabric: GATEWAY cell of the one NETWORKS row
    store,         \* controller: stored port_config of every device
    prior,         \* store as it was before the run (history variable)
    cache,         \* create_fabric: device_configs_cache
    calls,         \* controller: log of the API calls of the run
    submitted,     \* port_config of the device PUTs issued so far
    todo,          \* create_fabric: devices the current loop has still to visit
    abort,         \* create_fabric: the exception that ended the run, if any
    gateway6,      \* create_fabric: GATEWAY6 cell of the one NETWORKS row
    esi_lag_name,  \* create_fabric: fabric["esi_lag_name"] (_parse_fabric)
    site_usages,   \* keys of the port_usages the site-settings PUTs carried
    optic,         \* outcome of _build_optic_port_config
    prev,          \* port_config the previous run submitted (history variable)
    runs           \* number of runs completed before the current one

vars == <<pc, entries, roles_res, topo, old_cfg, new_cfg, merged, field,
          parsed, mode, gateway, store, prior, cache, calls, submitted, todo,
          abort, gateway6, esi_lag_name, site_usages, optic, prev, runs>>

(***************************************************************************)
(* Values                                                                  *)
(***************************************************************************)
None == "None"          \* Python None for a missing string cell
NoAe == 0               \* Python None for AE_IDX (an empty or 0 cell)
Core == "collapsed-core"
Access == "access"
EmptyMap == <<>>        \* Python {}

\* lexicographic order of the names used as devices and ports
Ord == [n \in {"A", "B", "X", "Y", "p1", "p2", "p3", "p4"} |->
          CASE n = "A" -> 1 [] n = "B" -> 2 [] n = "X" -> 3 [] n = "Y" -> 4
            [] n = "p1" -> 5 [] n = "p2" -> 6 [] n = "p3" -> 7 [] n = "p4" -> 8]

Entry(sd, sr, si, dd, dr, di, ae) ==
    [src_device |-> sd, src_role |-> sr, src_int |-> si,
     dst_device |-> dd, dst_role |-> dr, dst_int |-> di, ae_idx |-> ae]

\* dict[key] = value
Put(m, k, v) == (k :> v) @@ m

\* dict.get(key, {})
Get(m, k) == IF k \in DOMAIN m THEN m[k] ELSE EmptyMap

\* all sequences over S of length 0..n
SeqUpTo(S, n) == UNION {[1..k -> S] : k \in 0..n}

(***************************************************************************)
(* _merge_port_configs                                                     *)
(***************************************************************************)
MergeOldWins(current_port_config, new_evpn_ports) ==
    [p \in DOMAIN current_port_config \cup DOMAIN new_evpn_ports |->
        IF p \in DOMAIN current_port_config THEN current_port_config[p]
        ELSE new_evpn_ports[p]]

_merge_port_configs(current_port_config, new_evpn_ports) ==
    LET afterOld == [p \in DOMAIN current_port_config |-> current_port_config[p]]
    IN  [p \in DOMAIN afterOld \cup DOMAIN new_evpn_ports |->
            IF p \in DOMAIN new_evpn_ports THEN new_evpn_ports[p]
            ELSE afterOld[p]]

(***************************************************************************)
(* _roles_from_interfaces                                                  *)
(***************************************************************************)
\* one iteration of the inner loop, for one (dev, role) pair
RolesStepBody(acc, dev, role, skipEmpty) ==
    IF acc.err THEN acc
    ELSE IF dev = None \/ (skipEmpty /\ role = None) THEN acc
    ELSE IF dev \in DOMAIN acc.roles /\ acc.roles[dev] # role
         THEN [acc EXCEPT !.err = TRUE]
    ELSE [err |-> FALSE,
          roles |-> Put(acc.roles, dev, role),
          keys |-> IF dev \in DOMAIN acc.roles THEN acc.keys
                   ELSE Append(acc.keys, dev)]

RolesStepKeepNone(acc, dev, role) == RolesStepBody(acc, dev, role, FALSE)

RolesStep(acc, dev, role) == RolesStepBody(acc, dev, role, TRUE)

RECURSIVE RolesLoop(_, _, _)
RolesLoop(es, i, acc) ==
    IF i > Len(es) THEN acc
    ELSE RolesLoop(es, i + 1,
            RolesStep(RolesStep(acc, es[i].src_device, es[i].src_role),
                      es[i].dst_device, es[i].dst_role))

\* err: the conflicting-roles exception was raised; roles: the dict;
\* keys: the dict's keys in insertion order
_roles_from_interfaces(es) ==
    RolesLoop(es, 1, [err |-> FALSE, roles |-> EmptyMap, keys |-> <<>>])

(***************************************************************************)
(* _build_topology                                                         *)
(***************************************************************************)
\* device_roles.get(dev)
RoleOf(device_roles, dev) ==
    IF dev \in DOMAIN device_roles THEN device_roles[dev] ELSE None

CoreDevices(device_roles) ==
    {d \in DOMAIN device_roles : device_roles[d] = Core}

\* the dedup key of a core-to-core record: frozenset({a, b})
LinkKeyOrdered(e) ==
    {<<e.src_device, e.src_int, e.dst_device, e.dst_int>>}

LinkKey(e) ==
    {<<e.src_device, e.src_int>>, <<e.dst_device, e.dst_int>>}

RECURSIVE CoreLinksLoop(_, _, _, _, _)
CoreLinksLoop(es, i, cores, seen, links) ==
    IF i > Len(es) THEN links
    ELSE LET e == es[i]
         IN  IF e.src_device \in cores /\ e.dst_device \in cores
                /\ LinkKey(e) \notin seen
             THEN CoreLinksLoop(es, i + 1, cores, seen \cup {LinkKey(e)},
                      Append(links, [core1 |-> e.src_device, port1 |-> e.src_int,
                                     core2 |-> e.dst_device, port2 |-> e.dst_int]))
             ELSE CoreLinksLoop(es, i + 1, cores, seen, links)

\* the sort key (core1, core2, port1, port2), compared as Python compares tuples
LinkLess(x, y) ==
    LET kx == <<Ord[x.core1], Ord[x.core2], Ord[x.port1], Ord[x.port2]>>
        ky == <<Ord[y.core1], Ord[y.core2], Ord[y.port1], Ord[y.port2]>>
    IN  \E j \in 1..4 : kx[j] < ky[j] /\ \A h \in 1..(j - 1) : kx[h] = ky[h]

RECURSIVE InsertLink(_, _)
InsertLink(sorted, l) ==
    IF sorted = <<>> THEN <<l>>
    ELSE IF LinkLess(l, Head(sorted)) THEN <<l>> \o sorted
    ELSE <<Head(sorted)>> \o InsertLink(Tail(sorted), l)

\* sorted(core_links, key=...): a stable sort
RECURSIVE SortLinks(_)
SortLinks(links) ==
    IF links = <<>> THEN <<>>
    ELSE InsertLink(SortLinks(SubSeq(links, 1, Len(links) - 1)), links[Len(links)])

\* the filter of lines 525-528
IsLegEitherCore(e, device_roles) ==
    /\ e.ae_idx # NoAe
    /\ (RoleOf(device_roles, e.src_device) = Core
        \/ RoleOf(device_roles, e.dst_device) = Core)

IsLeg(e, device_roles) ==
    /\ e.ae_idx # NoAe
    /\ (RoleOf(device_roles, e.src_device) = Core)
         # (RoleOf(device_roles, e.dst_device) = Core)

\* ae_groups.setdefault(ae, []).append(e); groups are kept in insertion order
AddConn(groups, ae, e) ==
    IF \E k \in 1..Len(groups) : groups[k].ae = ae
    THEN [k \in 1..Len(groups) |->
            IF groups[k].ae = ae
            THEN [groups[k] EXCEPT !.conns = Append(@, e)]
            ELSE groups[k]]
    ELSE Append(groups, [ae |-> ae, conns |-> <<e>>])

RECURSIVE AeGroupsLoop(_, _, _, _)
AeGroupsLoop(es, i, device_roles, groups) ==
    IF i > Len(es) THEN groups
    ELSE AeGroupsLoop(es, i + 1, device_roles,
            IF IsLeg(es[i], device_roles)
            THEN AddConn(groups, es[i].ae_idx, es[i])
            ELSE groups)

EsiLagCore(ae) ==
    [usage |-> "EVPN-ESI-LAG", aggregated |-> TRUE, esilag |-> TRUE, ae_idx |-> ae]

EsiLagAccess(ae) ==
    [usage |-> "EVPN-ESI-LAG", aggregated |-> TRUE, ae_idx |-> ae]

\* ",".join of a sorted list of at most two distinct port names
CommaJoin(ports) ==
    IF Len(ports) = 0 THEN ""
    ELSE IF Len(ports) = 1 THEN ports[1]
    ELSE CASE ports = <<"p1", "p2">> -> "p1,p2"
           [] ports = <<"p1", "p3">> -> "p1,p3"
           [] ports = <<"p2", "p3">> -> "p2,p3"
           [] ports = <<"p1", "p4">> -> "p1,p4"
           [] ports = <<"p2", "p4">> -> "p2,p4"
           [] ports = <<"p3", "p4">> -> "p3,p4"

\* sorted({p for p in access_ports if p})
SortedPorts(access_ports) ==
    LET S == {access_ports[k] : k \in 1..Len(access_ports)} \ {None}
    IN  IF S = {} THEN <<>>
        ELSE IF Cardinality(S) = 1 THEN <<CHOOSE p \in S : TRUE>>
        ELSE LET lo == CHOOSE p \in S : \A q \in S : Ord[p] <= Ord[q]
                 hi == CHOOSE p \in S : p # lo
             IN  <<lo, hi>>

\* the conflict test of line 543
PortTakenNever(core_port_config, core_dev, core_port) == FALSE

PortTaken(core_port_config, core_dev, core_port) ==
    core_port \in DOMAIN core_port_config[core_dev]

\* one iteration of the loop over the legs of a group (lines 536-547)
LegStep(st, c, ae, device_roles) ==
    IF st.status # "ok" THEN st
    ELSE LET srcCore == RoleOf(device_roles, c.src_device) = Core
             core_dev == IF srcCore THEN c.src_device ELSE c.dst_device
             core_port == IF srcCore THEN c.src_int ELSE c.dst_int
             access_dev == IF srcCore THEN c.dst_device ELSE c.src_device
             access_port == IF srcCore THEN c.dst_int ELSE c.src_int
         IN  IF PortTaken(st.core_port_config, core_dev, core_port)
             THEN [st EXCEPT !.status = "port_conflict"]
             ELSE [st EXCEPT
                     !.core_port_config[core_dev] = Put(@, core_port, EsiLagCore(ae)),
                     !.access_dev = access_dev,
                     !.access_ports = Append(@, access_port)]

\* the size test of line 532
SizeOk(conns) == Len(conns) = 2

RECURSIVE LegsLoop(_, _, _, _, _)
LegsLoop(st, conns, k, ae, device_roles) ==
    IF k > Len(conns) THEN st
    ELSE LegsLoop(LegStep(st, conns[k], ae, device_roles), conns, k + 1, ae, device_roles)

\* one iteration of the loop over ae_groups (lines 531-549)
GroupStep(st, g, device_roles) ==
    IF st.status # "ok" THEN st
    ELSE IF ~SizeOk(g.conns) THEN [st EXCEPT !.status = "ae_size"]
    ELSE LET after == LegsLoop([st EXCEPT !.access_dev = None, !.access_ports = <<>>],
                               g.conns, 1, g.ae, device_roles)
         IN  IF after.status # "ok" THEN after
             ELSE [after EXCEPT !.access_port_config =
                     Put(@, after.access_dev,
                         CommaJoin(SortedPorts(after.access_ports)) :> EsiLagAccess(g.ae))]

RECURSIVE GroupsLoop(_, _, _, _)
GroupsLoop(st, groups, k, device_roles) ==
    IF k > Len(groups) THEN st
    ELSE GroupsLoop(GroupStep(st, groups[k], device_roles), groups, k + 1, device_roles)

\* the usage of core1's port of the i-th sorted link (lines 553-558)
Core1Usage(i) == IF i % 2 = 1 THEN "evpn_downlink" ELSE "evpn_uplink"

Core2Usage(i) == IF i % 2 = 1 THEN "evpn_uplink" ELSE "evpn_downlink"

LinkName(i) == <<"link", i>>      \* f"link{i}"

RECURSIVE TagLoop(_, _, _)
TagLoop(cpc, sorted, i) ==
    IF i > Len(sorted) THEN cpc
    ELSE LET l == sorted[i]
             one == [cpc EXCEPT ![l.core1] =
                        Put(@, l.port1, [usage |-> Core1Usage(i), link_name |-> LinkName(i)])]
             two == [one EXCEPT ![l.core2] =
                        Put(@, l.port2, [usage |-> Core2Usage(i), link_name |-> LinkName(i)])]
         IN  TagLoop(two, sorted, i + 1)

Failed(status) ==
    [status |-> status, core_links |-> <<>>,
     core_port_config |-> EmptyMap, access_port_config |-> EmptyMap]

\* status "ok": the function returned; any other status names the exception
_build_topology(es, device_roles) ==
    LET core_devices == CoreDevices(device_roles)
    IN  IF Cardinality(core_devices) < 2 THEN Failed("need_two_cores")
        ELSE
        LET core_links == CoreLinksLoop(es, 1, core_devices, {}, <<>>)
            ae_groups == AeGroupsLoop(es, 1, device_roles, <<>>)
            st0 == [status |-> "ok",
                    core_port_config |-> [c \in core_devices |-> EmptyMap],
                    access_port_config |-> EmptyMap,
                    access_dev |-> None, access_ports |-> <<>>]
            st1 == GroupsLoop(st0, ae_groups, 1, device_roles)
        IN  IF st1.status # "ok" THEN Failed(st1.status)
            ELSE [status |-> "ok",
                  core_links |-> core_links,
                  core_port_config |->
                      TagLoop(st1.core_port_config, SortLinks(core_links), 1),
                  access_port_config |-> st1.access_port_config]

(***************************************************************************)
(* _parse_static_routes and _parse_network_comment_directives              *)
(*                                                                         *)
(* A token or clause is the sequence of its pieces of text; "@" and "via"  *)
(* are the separators the code splits on.  A prefix text is a network only *)
(* if it is one of the literals of Networks4 or Networks6.                 *)
(***************************************************************************)
Networks4 == {"10.0.0.0/24", "0.0.0.0/0"}
Networks6 == {"::/0"}

\* ":" in prefix
HasColon(text) == text \in {"::/0", "bad:6"}

\* ipaddress.ip_network(text, strict=False) does not raise
IsNetwork(text) == Len(text) = 1 /\ text[1] \in Networks4 \cup Networks6

\* position of the first separator, 0 if there is none
FirstSep(text, sep) ==
    IF \E k \in 1..Len(text) : text[k] = sep
    THEN CHOOSE k \in 1..Len(text) :
            text[k] = sep /\ \A h \in 1..(k - 1) : text[h] # sep
    ELSE 0

\* text.split(sep, 1), when sep occurs in text
Before(text, sep) == SubSeq(text, 1, FirstSep(text, sep) - 1)

After(text, sep) == SubSeq(text, FirstSep(text, sep) + 1, Len(text))

\* what an invalid network does to the loop: the exception leaves the loop
OnInvalid(acc) == [acc EXCEPT !.stopped = TRUE]

\* one iteration of the loop of lines 87-106
StaticStep(acc, pair) ==
    IF acc.stopped THEN acc
    ELSE IF pair = <<>> \/ FirstSep(pair, "@") = 0 THEN acc
    ELSE LET route == Before(pair, "@")
             nexthop == After(pair, "@")
         IN  IF route = <<>> \/ nexthop = <<>> THEN acc
             ELSE IF ~IsNetwork(route) THEN OnInvalid(acc)
             ELSE [acc EXCEPT !.result = Put(@, route[1], [via |-> nexthop])]

RECURSIVE StaticLoop(_, _, _)
StaticLoop(acc, pairs, k) ==
    IF k > Len(pairs) THEN acc
    ELSE StaticLoop(StaticStep(acc, pairs[k]), pairs, k + 1)

\* result: the returned dict; stopped: the except branch was taken
_parse_static_routes(routes_str) ==
    StaticLoop([result |-> EmptyMap, stopped |-> FALSE], routes_str, 1)

\* one iteration of the loop of lines 249-258
CommentStep(acc, p) ==
    IF acc.stopped THEN acc
    ELSE IF FirstSep(p, "via") = 0 THEN acc
    ELSE LET raw == Before(p, "via")
             nh == After(p, "via")
             prefix == IF raw # <<>> /\ raw[1] = "default"
                       THEN <<"0.0.0.0/0">> ELSE raw
         IN  IF ~IsNetwork(prefix) THEN OnInvalid(acc)
             ELSE IF HasColon(prefix[1])
                  THEN [acc EXCEPT !.r6 = Put(@, prefix[1], [via |-> nh])]
                  ELSE [acc EXCEPT !.r4 = Put(@, prefix[1], [via |-> nh])]

RECURSIVE CommentLoop(_, _, _)
CommentLoop(acc, parts, k) ==
    IF k > Len(parts) THEN acc
    ELSE CommentLoop(CommentStep(acc, parts[k]), parts, k + 1)

\* [p.strip() for p in comment.split(";") if p.strip()]
NonEmptyParts(comment) ==
    LET keep == {k \in 1..Len(comment) : comment[k] # <<>>}
        nth(n) == CHOOSE k \in keep : Cardinality({h \in keep : h < k}) = n - 1
    IN  [n \in 1..Cardinality(keep) |-> comment[nth(n)]]

_parse_network_comment_directives(comment) ==
    CommentLoop([r4 |-> EmptyMap, r6 |-> EmptyMap, stopped |-> FALSE],
                NonEmptyParts(comment), 1)

(***************************************************************************)
(* _build_optic_port_config.  A port name is the sequence of the pieces    *)
(* that its ":" separate: "et0:1" is <<"et0", "1">>, ":1" is <<"", "1">>;  *)
(* a missing or empty port cell is <<>>.  channelized is "True", "False"   *)
(* or None.                                                                *)
(***************************************************************************)
NoPort == <<>>

OpticEntry(sd, si, dd, di, speed, channelized) ==
    [src_device |-> sd, src_int |-> si, dst_device |-> dd, dst_int |-> di,
     speed |-> speed, channelized |-> channelized]

\* the pieces \d+ matches
Digits == {"0", "1", "2", "3", "12"}

\* get_base_port ignores the suffix and returns every name whole
GetBasePortWhole(port_name) == port_name

\* get_base_port: re.match(r'^([^:]+)(?::\d+)?$', port_name)
get_base_port(port_name) ==
    IF port_name = NoPort THEN port_name
    ELSE IF Len(port_name) = 1 /\ port_name[1] # "" THEN port_name
    ELSE IF Len(port_name) = 2 /\ port_name[1] # "" /\ port_name[2] \in Digits
         THEN <<port_name[1]>>
    ELSE port_name

\* config_entry of lines 468-472 and 488-492
ConfigEntry(speed, channelized) ==
    IF speed # None /\ channelized # None
    THEN ("speed" :> speed) @@ ("channelized" :> channelized)
    ELSE IF speed # None THEN "speed" :> speed
    ELSE IF channelized # None THEN "channelized" :> channelized
    ELSE EmptyMap

\* the later record replaces the entry
OpticEndStepLastWins(optic_config, dev, int, speed, channelized) ==
    IF dev = None \/ int = NoPort THEN optic_config
    ELSE Put(optic_config, dev,
             Put(Get(optic_config, dev), get_base_port(int),
                 ConfigEntry(speed, channelized)))

\* lines 459-475 for the source, 479-495 for the destination
OpticEndStep(optic_config, dev, int, speed, channelized) ==
    IF dev = None \/ int = NoPort THEN optic_config
    ELSE LET base_port == get_base_port(int)
             of_dev == Get(optic_config, dev)
             config_entry == ConfigEntry(speed, channelized)
         IN  IF base_port \in DOMAIN of_dev \/ config_entry = EmptyMap
             THEN Put(optic_config, dev, of_dev)
             ELSE Put(optic_config, dev, Put(of_dev, base_port, config_entry))

\* one iteration of the loop of lines 440-496
OpticStep(optic_config, e) ==
    IF e.speed = None /\ e.channelized = None THEN optic_config
    ELSE OpticEndStep(
            OpticEndStep(optic_config, e.src_device, e.src_int, e.speed, e.channelized),
            e.dst_device, e.dst_int, e.speed, e.channelized)

RECURSIVE OpticLoop(_, _, _)
OpticLoop(optic_config, es, k) ==
    IF k > Len(es) THEN optic_config
    ELSE OpticLoop(OpticStep(optic_config, es[k]), es, k + 1)

_build_optic_port_config(es) == OpticLoop(EmptyMap, es, 1)

(***************************************************************************)
(* Addresses: an IPv4 address is its four octets, most significant first   *)
(***************************************************************************)
NoGateway == [kind |-> "none", ip |-> <<0, 0, 0, 0>>, prefixlen |-> 0]

\* IPv4Address + offset: ok is FALSE when the sum is 2**32 or more, where
\* the constructor raises AddressValueError
AddOffset(ip, offset) ==
    LET d4 == ip[4] + offset
        d3 == ip[3] + (d4 \div 256)
        d2 == ip[2] + (d3 \div 256)
        d1 == ip[1] + (d2 \div 256)
    IN  [ok |-> d1 < 256, ip |-> <<d1 % 256, d2 % 256, d3 % 256, d4 % 256>>]

RECURSIVE Pow2(_)
Pow2(n) == IF n = 0 THEN 1 ELSE 2 * Pow2(n - 1)

\* i4.network.netmask
Netmask(prefixlen) ==
    [k \in 1..4 |->
        LET bits == IF prefixlen >= 8 * k THEN 8
                    ELSE IF prefixlen <= 8 * (k - 1) THEN 0
                    ELSE prefixlen - 8 * (k - 1)
        IN  256 - Pow2(8 - bits)]

\* an IPv6 address is its eight 16-bit groups, most significant first
NoGateway6 == [kind |-> "none", ip |-> <<0, 0, 0, 0, 0, 0, 0, 0>>, prefixlen |-> 0]

RECURSIVE AddGroups(_, _, _)
AddGroups(ip, k, carry) ==
    IF k = 0 THEN [ok |-> carry = 0, ip |-> ip]
    ELSE LET d == ip[k] + carry
         IN  AddGroups([ip EXCEPT ![k] = d % 65536], k - 1, d \div 65536)

\* IPv6Address + offset: ok is FALSE when the sum is 2**128 or more
AddOffset6(ip, offset) == AddGroups(ip, 8, offset)

\* make_other_ip_configs for the one row "net1" of the NETWORKS sheet;
\* ok is FALSE when gateway + offset raises
make_other_ip_configs(gw4, gw6, offset) ==
    LET sum4 == AddOffset(gw4.ip, offset)
        sum6 == AddOffset6(gw6.ip, offset)
        has4 == gw4.kind # "none"
        has6 == gw6.kind # "none"
        e4 == [type |-> "static", ip |-> sum4.ip, netmask |-> Netmask(gw4.prefixlen)]
        e6 == [type6 |-> "static", ip6 |-> sum6.ip, netmask6 |-> <<"/", gw6.prefixlen>>]
        entry == IF has4 /\ has6 THEN e6 @@ e4
                 ELSE IF has4 THEN e4
                 ELSE IF has6 THEN e6
                 ELSE EmptyMap
    IN  IF (has4 /\ ~sum4.ok) \/ (has6 /\ ~sum6.ok)
        THEN [ok |-> FALSE, cfg |-> EmptyMap]
        ELSE [ok |-> TRUE,
              cfg |-> IF has4 \/ has6 THEN "net1" :> entry ELSE EmptyMap]

(***************************************************************************)
(* create_fabric                                                           *)
(***************************************************************************)
\* _parse_fabric, line 134: str(data.get("esi_lag_name") or "EVPN-ESI-LAG")
_parse_fabric_esi_lag_name(cell) ==
    IF cell \in {None, ""} THEN "EVPN-ESI-LAG" ELSE cell

SiteDevices == {"A", "B", "X"}      \* the switches mh.get_switches returns

\* sorted(core devices)
RECURSIVE SortedNames(_)
SortedNames(S) ==
    IF S = {} THEN <<>>
    ELSE LET lo == CHOOSE d \in S : \A e \in S : Ord[d] <= Ord[e]
         IN  <<lo>> \o SortedNames(S \ {lo})

\* every core gets the offset of the first core
CoreOffsetAllFirst(device_roles, name) == 1

\* core_offsets.get(name, 1)
CoreOffset(device_roles, name) ==
    LET core_devices == SortedNames(CoreDevices(device_roles))
    IN  IF name = core_devices[1] THEN 1
        ELSE IF name = core_devices[2] THEN 2
        ELSE 1

\* the synthesized port configuration of a device (lines 763-764)
NewPortConfig(name) ==
    IF roles_res.roles[name] = Core THEN Get(topo.core_port_config, name)
    ELSE Get(topo.access_port_config, name)

\* the port configuration a device PUT carries (lines 767-772)
FinalPortConfig(name) ==
    IF mode = "UPDATE"
    THEN _merge_port_configs(Get(Get(cache, name), "port_config"), NewPortConfig(name))
    ELSE NewPortConfig(name)

\* where the run goes after the synthesis: the cache loop runs in UPDATE mode
AfterSynthesisNoCache(m) == "site_settings"

AfterSynthesis(m) == IF m = "UPDATE" THEN "cache" ELSE "site_settings"

IsSubmission(call) == call[1] \in {"PUT_SETTING", "PUT_TOPO", "POST_TOPO", "PUT_DEVICE"}

\* _find_existing_topology: the lookup decides the mode (lines 592-604)
FindExistingTopology ==
    /\ pc = "start"
    /\ mode' \in {"CREATE", "UPDATE"}
    /\ pc' = "synthesis"
    /\ UNCHANGED <<entries, roles_res, topo, old_cfg, new_cfg, merged, field, parsed,
                   optic, gateway6, esi_lag_name, prev, runs, site_usages,
                   gateway, store, prior, cache, calls, submitted, todo, abort>>

\* the exception lines 611-625 raise, "none" if they raise none
SynthesisError(r, t) ==
    IF Len(entries) = 0 THEN "no_rows"
    ELSE IF r.err THEN "role_conflict"
    ELSE IF Cardinality(CoreDevices(r.roles)) < 2 THEN "need_two_cores"
    ELSE IF ~(DOMAIN r.roles \subseteq SiteDevices) THEN "device_not_found"
    ELSE IF gateway.kind = "junk" \/ gateway6.kind = "junk" THEN "bad_gateway"
    ELSE IF t.status # "ok" THEN t.status
    ELSE "none"

\* lines 610-631: parse the sheets and build the topology; no external call
Synthesize ==
    /\ pc = "synthesis"
    /\ LET r == _roles_from_interfaces(entries)
           t == IF r.err THEN Failed("none") ELSE _build_topology(entries, r.roles)
           err == SynthesisError(r, t)
       IN  /\ roles_res' = r
           /\ abort' = err
           /\ topo' = IF err = "none" THEN t ELSE Failed("none")
           /\ pc' = IF err = "none" THEN AfterSynthesis(mode) ELSE "aborted"
           /\ todo' = IF err = "none" THEN r.keys ELSE <<>>
    /\ UNCHANGED <<entries, old_cfg, new_cfg, merged, field, parsed,
                   optic, gateway6, esi_lag_name, prev, runs, site_usages,
                   mode, gateway, store, prior, cache, calls, submitted>>

\* one iteration of the cache loop (lines 641-644): _get_device_config
\* returns the device, or {} when the request fails
CacheDeviceConfig ==
    /\ pc = "cache" /\ todo # <<>>
    /\ LET name == Head(todo)
       IN  /\ \E fetched \in {"port_config" :> store[name], EmptyMap} :
                cache' = Put(cache, name, fetched)
           /\ calls' = Append(calls, <<"GET_DEVICE", name>>)
    /\ todo' = Tail(todo)
    /\ pc' = IF Tail(todo) = <<>> THEN "site_settings" ELSE "cache"
    /\ UNCHANGED <<entries, roles_res, topo, old_cfg, new_cfg, merged, field, parsed,
                   optic, gateway6, esi_lag_name, prev, runs, site_usages,
                   mode, gateway, store, prior, submitted, abort>>

\* the keys of the port_usages table of a site-settings payload
\* (lines 654-677 and 795-820)
PortUsagesKeys == {esi_lag_name}

\* step 1 (line 677): PUT of the site settings
PutSiteSetting ==
    /\ pc = "site_settings"
    /\ calls' = Append(calls, <<"PUT_SETTING", "site">>)
    /\ site_usages' = PortUsagesKeys
    /\ pc' = "topology"
    /\ UNCHANGED <<entries, roles_res, topo, old_cfg, new_cfg, merged, field, parsed,
                   optic, gateway6, esi_lag_name, prev, runs,
                   mode, gateway, store, prior, cache, submitted, todo, abort>>

\* step 2 (lines 701-732): PUT or POST of the topology, which carries the
\* synthesized port_config of every switch and overwrites what is stored
PutTopology ==
    /\ pc = "topology"
    /\ calls' = Append(calls, <<IF mode = "UPDATE" THEN "PUT_TOPO" ELSE "POST_TOPO", "site">>)
    /\ store' = [d \in DOMAIN store |->
                    IF d \in DOMAIN roles_res.roles THEN NewPortConfig(d) ELSE store[d]]
    /\ todo' = roles_res.keys
    /\ pc' = "devices"
    /\ UNCHANGED <<entries, roles_res, topo, old_cfg, new_cfg, merged, field, parsed,
                   optic, gateway6, esi_lag_name, prev, runs, site_usages,
                   mode, gateway, prior, cache, submitted, abort>>

\* one iteration of the loop of step 3 (lines 759-792): merge, compute the
\* secondary addresses of a core, PUT the device
ConfigureDevice ==
    /\ pc = "devices" /\ todo # <<>>
    /\ LET name == Head(todo)
           isCore == roles_res.roles[name] = Core
           other == IF isCore
                    THEN make_other_ip_configs(gateway, gateway6,
                                               CoreOffset(roles_res.roles, name))
                    ELSE [ok |-> TRUE, cfg |-> EmptyMap]
           payload == [port_config |-> FinalPortConfig(name),
                       other_ip_configs |-> other.cfg]
       IN  IF other.ok
           THEN /\ calls' = Append(calls, <<"PUT_DEVICE", name>>)
                /\ submitted' = Put(submitted, name, payload)
                /\ store' = [store EXCEPT ![name] = payload.port_config]
                /\ todo' = Tail(todo)
                /\ pc' = IF Tail(todo) = <<>> THEN "final_settings" ELSE "devices"
                /\ abort' = abort
           ELSE /\ abort' = "address_overflow"
                /\ pc' = "aborted"
                /\ UNCHANGED <<calls, submitted, store, todo>>
    /\ UNCHANGED <<entries, roles_res, topo, old_cfg, new_cfg, merged, field, parsed,
                   optic, gateway6, esi_lag_name, prev, runs, site_usages,
                   mode, gateway, prior, cache>>

\* step 4 (line 820): PUT of the site settings, now with the topology id
PutFinalSetting ==
    /\ pc = "final_settings"
    /\ calls' = Append(calls, <<"PUT_SETTING", "site">>)
    /\ site_usages' = PortUsagesKeys
    /\ pc' = "done"
    /\ UNCHANGED <<entries, roles_res, topo, old_cfg, new_cfg, merged, field, parsed,
                   optic, gateway6, esi_lag_name, prev, runs,
                   mode, gateway, store, prior, cache, submitted, todo, abort>>

NextRun ==
    \/ FindExistingTopology
    \/ Synthesize
    \/ CacheDeviceConfig
    \/ PutSiteSetting
    \/ PutTopology
    \/ ConfigureDevice
    \/ PutFinalSetting

(***************************************************************************)
(* Bounds and input alphabets                                              *)
(***************************************************************************)
MaxRoleEntries == 2
MaxCoreEntries == 3
MaxAggEntries == 4
MaxTokens == 3
MaxAccessEntries == 4
MaxOpticEntries == 3
MaxRuns == 2

MergePorts == {"P1", "P2", "P3"}
MergeValues == {"A", "B", "C", "D"}
PortMaps == UNION {[S -> MergeValues] : S \in SUBSET MergePorts}

\* rows whose role cells are free: a device may carry any role, or none
RoleEntries ==
    {Entry(sd, sr, "p1", dd, dr, "p1", NoAe) :
        sd \in {"A", "B"}, sr \in {None, Core, Access},
        dd \in {"A", "B", None}, dr \in {None, Core, Access}}

\* rows between the cores A and B in either direction, and two rows that
\* are not core-to-core
CoreEntries ==
    {Entry(d[1], Core, sp, d[2], Core, dp, NoAe) :
        d \in {<<"A", "B">>, <<"B", "A">>},
        sp \in {"p1", "p2", "p3"}, dp \in {"p1", "p2", "p3"}}
    \cup {Entry("A", Core, "p1", "X", Access, "p1", NoAe),
          Entry("X", Access, "p1", "Y", Access, "p1", NoAe)}

\* legs from A to X and from X to B for two aggregation ids, and rows with
\* both, neither, or no aggregation id
AggEntries ==
    {Entry("A", Core, p, "X", Access, "p1", ae) : p \in {"p1", "p2"}, ae \in {1, 2}}
    \cup {Entry("X", Access, "p2", "B", Core, p, ae) : p \in {"p1", "p2"}, ae \in {1, 2}}
    \cup {Entry("A", Core, "p1", "B", Core, "p1", 1),
          Entry("X", Access, "p1", "Y", Access, "p1", 2),
          Entry("A", Core, "p1", "X", Access, "p1", NoAe)}

\* two aggregation ids with a leg to each core and distinct ports of the
\* access device X, a leg of id 1 that ends on another access device Y, and
\* a core link
AccessEntries ==
    {Entry("A", Core, "p1", "X", Access, "p1", 1),
     Entry("X", Access, "p2", "B", Core, "p1", 1),
     Entry("A", Core, "p2", "X", Access, "p3", 2),
     Entry("X", Access, "p4", "B", Core, "p2", 2),
     Entry("B", Core, "p1", "Y", Access, "p2", 1),
     Entry("A", Core, "p3", "B", Core, "p3", NoAe)}

\* port names: et0, et0:1, et0:x, et0:1:2, :1
OpticPortNames ==
    {<<"et0">>, <<"et0", "1">>, <<"et0", "x">>, <<"et0", "1", "2">>, <<"", "1">>}

\* records from a port of A to et1 of B that carry a speed or a channelized
\* flag, records that reach A's et0 as destination, a record with neither
\* setting, and records with an empty cell
OpticEntries ==
    {OpticEntry("A", n, "B", <<"et1">>, sc[1], sc[2]) :
        n \in OpticPortNames, sc \in {<<"10g", None>>, <<None, "True">>}}
    \cup {OpticEntry("B", <<"et1">>, "A", n, "25g", "False") :
            n \in {<<"et0">>, <<"et0", "1">>}}
    \cup {OpticEntry("A", <<"et0">>, "B", <<"et1">>, None, None),
          OpticEntry("A", <<"et0">>, None, NoPort, "40g", None),
          OpticEntry("A", NoPort, "B", <<"et0", "3">>, "40g", None)}

StaticTokens ==
    {<<p, "@", h>> : p \in {"10.0.0.0/24", "0.0.0.0/0", "bad"},
                     h \in {"10.0.0.254", "10.0.0.1"}}
    \cup {<<"10.0.0.0/24">>, <<"@", "10.0.0.1">>, <<"0.0.0.0/0", "@">>,
          <<"0.0.0.0/0", "@", "10.0.0.1", "@", "x">>}

CommentClauses ==
    {<<p, "via", "10.0.0.254">> : p \in {"10.0.0.0/24", "default", "::/0", "bad", "bad:6"}}
    \cup {<<"junk">>, <<>>}

\* the INTERFACES sheet of a run is any selection of rows of this sheet:
\* a core link, two aggregation ids with two legs each that claim the same
\* port of A, and a row that calls X a core
BaseSheet ==
    << Entry("A", Core, "p1", "B", Core, "p1", NoAe),
       Entry("A", Core, "p2", "X", Access, "p1", 1),
       Entry("B", Core, "p2", "X", Access, "p2", 1),
       Entry("A", Core, "p2", "X", Access, "p1", 2),
       Entry("B", Core, "p3", "X", Access, "p2", 2),
       Entry("X", Core, "p3", "A", Core, "p3", NoAe) >>

RECURSIVE SelectRows(_, _)
SelectRows(sheet, keep) ==
    IF sheet = <<>> THEN <<>>
    ELSE SelectRows(SubSeq(sheet, 1, Len(sheet) - 1), keep)
            \o (IF Len(sheet) \in keep THEN <<sheet[Len(sheet)]>> ELSE <<>>)

RunSheets == {SelectRows(BaseSheet, keep) : keep \in SUBSET (1..Len(BaseSheet))}

\* the workbook of a run of a series is one of these sheets: one or two core
\* links, with or without an aggregation group of X
RerunSheets ==
    {SelectRows(<< Entry("A", Core, "p1", "B", Core, "p1", NoAe),
                   Entry("A", Core, "p3", "B", Core, "p3", NoAe),
                   Entry("A", Core, "p2", "X", Access, "p1", 1),
                   Entry("B", Core, "p2", "X", Access, "p2", 1) >>, keep) :
        keep \in {{1}, {1, 2}, {1, 3, 4}, {1, 2, 3, 4}}}

\* GATEWAY cells: empty, 10.0.0.1/24, 192.168.1.255/23 (the sum carries
\* into the next octet), 255.255.255.254/24, and text that is no address
Gateways ==
    {NoGateway,
     [kind |-> "iface", ip |-> <<10, 0, 0, 1>>, prefixlen |-> 24],
     [kind |-> "iface", ip |-> <<192, 168, 1, 255>>, prefixlen |-> 23],
     [kind |-> "iface", ip |-> <<255, 255, 255, 254>>, prefixlen |-> 24],
     [kind |-> "junk", ip |-> <<0, 0, 0, 0>>, prefixlen |-> 0]}

\* esi_lag_name cells of the FABRIC sheet: missing, empty, the default name
\* and another name
EsiLagCells == {None, "", "EVPN-ESI-LAG", "SITE-LAG"}

\* GATEWAY6 cells: empty, 2001:db8::1/64, 2001:db8::ffff/64 (the sum carries
\* into the next group), and text that is no address
Gateways6 ==
    {NoGateway6,
     [kind |-> "iface", ip |-> <<8193, 3512, 0, 0, 0, 0, 0, 1>>, prefixlen |-> 64],
     [kind |-> "iface", ip |-> <<8193, 3512, 0, 0, 0, 0, 0, 65535>>, prefixlen |-> 64],
     [kind |-> "junk", ip |-> <<0, 0, 0, 0, 0, 0, 0, 0>>, prefixlen |-> 0]}

\* what a device has configured before the run: nothing, or two ports an
\* operator configured, one of which the synthesis may produce as well
UserPort == [usage |-> "user_trunk"]
PriorConfigs == {EmptyMap, ("u1" :> UserPort) @@ ("p2" :> UserPort)}

(***************************************************************************)
(* Specifications of the helpers: Init draws the arguments, the action     *)
(* applies the function.                                                   *)
(***************************************************************************)
NoRoles == [err |-> FALSE, roles |-> EmptyMap, keys |-> <<>>]
NoParse == [result |-> EmptyMap, r4 |-> EmptyMap, r6 |-> EmptyMap, stopped |-> FALSE]

IdleHelpers ==
    /\ entries = <<>> /\ roles_res = NoRoles /\ topo = Failed("none")
    /\ old_cfg = EmptyMap /\ new_cfg = EmptyMap /\ merged = EmptyMap
    /\ field = <<>> /\ parsed = NoParse /\ optic = EmptyMap

IdleRun ==
    /\ mode = "none" /\ gateway = None /\ store = EmptyMap /\ prior = EmptyMap
    /\ cache = EmptyMap /\ calls = <<>> /\ submitted = EmptyMap /\ todo = <<>>
    /\ abort = "none"
    /\ gateway6 = None /\ esi_lag_name = None /\ site_usages = {}
    /\ prev = EmptyMap /\ runs = 0

runVars == <<mode, gateway, store, prior, cache, calls, submitted, todo, abort,
             gateway6, esi_lag_name, site_usages, prev, runs>>

InitMerge ==
    /\ pc = "merge"
    /\ old_cfg \in PortMaps /\ new_cfg \in PortMaps /\ merged = EmptyMap
    /\ entries = <<>> /\ roles_res = NoRoles /\ topo = Failed("none")
    /\ field = <<>> /\ parsed = NoParse /\ optic = EmptyMap
    /\ IdleRun

MergePortConfigs ==
    /\ pc = "merge"
    /\ merged' = _merge_port_configs(old_cfg, new_cfg)
    /\ pc' = "merged"
    /\ UNCHANGED <<entries, roles_res, topo, old_cfg, new_cfg, field, parsed, optic>>
    /\ UNCHANGED runVars

SpecMerge == InitMerge /\ [][MergePortConfigs]_vars

InitRoles ==
    /\ pc = "roles"
    /\ entries \in SeqUpTo(RoleEntries, MaxRoleEntries)
    /\ roles_res = NoRoles /\ topo = Failed("none")
    /\ old_cfg = EmptyMap /\ new_cfg = EmptyMap /\ merged = EmptyMap
    /\ field = <<>> /\ parsed = NoParse /\ optic = EmptyMap
    /\ IdleRun

RolesFromInterfaces ==
    /\ pc = "roles"
    /\ roles_res' = _roles_from_interfaces(entries)
    /\ pc' = "roled"
    /\ UNCHANGED <<entries, topo, old_cfg, new_cfg, merged, field, parsed, optic>>
    /\ UNCHANGED runVars

SpecRoles == InitRoles /\ [][RolesFromInterfaces]_vars

InitTopo(alphabet, maxLen) ==
    /\ pc = "topo"
    /\ entries \in SeqUpTo(alphabet, maxLen)
    /\ roles_res = NoRoles /\ topo = Failed("none")
    /\ old_cfg = EmptyMap /\ new_cfg = EmptyMap /\ merged = EmptyMap
    /\ field = <<>> /\ parsed = NoParse /\ optic = EmptyMap
    /\ IdleRun

InitCore == InitTopo(CoreEntries, MaxCoreEntries)

InitAgg == InitTopo(AggEntries, MaxAggEntries)

InitAccess == InitTopo(AccessEntries, MaxAccessEntries)

\* roles = _roles_from_interfaces(entries); _build_topology(entries, roles)
BuildTopology ==
    /\ pc = "topo"
    /\ roles_res' = _roles_from_interfaces(entries)
    /\ topo' = _build_topology(entries, roles_res'.roles)
    /\ pc' = "built"
    /\ UNCHANGED <<entries, old_cfg, new_cfg, merged, field, parsed, optic>>
    /\ UNCHANGED runVars

SpecCore == InitCore /\ [][BuildTopology]_vars

SpecAgg == InitAgg /\ [][BuildTopology]_vars

SpecAccess == InitAccess /\ [][BuildTopology]_vars

InitOptic ==
    /\ pc = "optic"
    /\ entries \in SeqUpTo(OpticEntries, MaxOpticEntries)
    /\ optic = EmptyMap
    /\ roles_res = NoRoles /\ topo = Failed("none")
    /\ old_cfg = EmptyMap /\ new_cfg = EmptyMap /\ merged = EmptyMap
    /\ field = <<>> /\ parsed = NoParse
    /\ IdleRun

BuildOpticPortConfig ==
    /\ pc = "optic"
    /\ optic' = _build_optic_port_config(entries)
    /\ pc' = "optic_built"
    /\ UNCHANGED <<entries, roles_res, topo, old_cfg, new_cfg, merged, field, parsed>>
    /\ UNCHANGED runVars

SpecOptic == InitOptic /\ [][BuildOpticPortConfig]_vars

InitRoutes ==
    /\ \/ pc = "static" /\ field \in SeqUpTo(StaticTokens, MaxTokens)
       \/ pc = "comment" /\ field \in SeqUpTo(CommentClauses, MaxTokens)
    /\ parsed = NoParse /\ optic = EmptyMap
    /\ entries = <<>> /\ roles_res = NoRoles /\ topo = Failed("none")
    /\ old_cfg = EmptyMap /\ new_cfg = EmptyMap /\ merged = EmptyMap
    /\ IdleRun

ParseStaticRoutes ==
    /\ pc = "static"
    /\ LET r == _parse_static_routes(field)
       IN  parsed' = [NoParse EXCEPT !.result = r.result, !.stopped = r.stopped]
    /\ pc' = "parsed_static"
    /\ UNCHANGED <<entries, roles_res, topo, old_cfg, new_cfg, merged, field, optic>>
    /\ UNCHANGED runVars

ParseNetworkCommentDirectives ==
    /\ pc = "comment"
    /\ LET r == _parse_network_comment_directives(field)
       IN  parsed' = [NoParse EXCEPT !.r4 = r.r4, !.r6 = r.r6, !.stopped = r.stopped]
    /\ pc' = "parsed_comment"
    /\ UNCHANGED <<entries, roles_res, topo, old_cfg, new_cfg, merged, field, optic>>
    /\ UNCHANGED runVars

NextRoutes == ParseStaticRoutes \/ ParseNetworkCommentDirectives

SpecRoutes == InitRoutes /\ [][NextRoutes]_vars

InitRun ==
    /\ pc = "start"
    /\ entries \in RunSheets
    /\ gateway \in Gateways /\ gateway6 \in Gateways6
    /\ esi_lag_name \in {_parse_fabric_esi_lag_name(c) : c \in EsiLagCells}
    /\ site_usages = {} /\ prev = EmptyMap /\ runs = 0
    /\ store \in [SiteDevices -> PriorConfigs]
    /\ prior = store
    /\ mode = "none" /\ cache = EmptyMap /\ calls = <<>> /\ submitted = EmptyMap
    /\ todo = <<>> /\ abort = "none"
    /\ roles_res = NoRoles /\ topo = Failed("none")
    /\ old_cfg = EmptyMap /\ new_cfg = EmptyMap /\ merged = EmptyMap
    /\ field = <<>> /\ parsed = NoParse /\ optic = EmptyMap

SpecRun == InitRun /\ [][NextRun]_vars

\* a series of runs against one site
InitRerun ==
    /\ pc = "start"
    /\ entries \in RerunSheets
    /\ gateway = NoGateway /\ gateway6 = NoGateway6
    /\ esi_lag_name = "EVPN-ESI-LAG" /\ site_usages = {}
    /\ prev = [entries |-> <<>>, mode |-> "none", port_config |-> EmptyMap]
    /\ runs = 0
    /\ store \in [SiteDevices -> PriorConfigs]
    /\ prior = store
    /\ mode = "none" /\ cache = EmptyMap /\ calls = <<>> /\ submitted = EmptyMap
    /\ todo = <<>> /\ abort = "none"
    /\ roles_res = NoRoles /\ topo = Failed("none")
    /\ old_cfg = EmptyMap /\ new_cfg = EmptyMap /\ merged = EmptyMap
    /\ field = <<>> /\ parsed = NoParse /\ optic = EmptyMap

\* the program is started again on an edited workbook; the controller keeps
\* what the devices have stored
Rerun ==
    /\ pc \in {"done", "aborted"}
    /\ runs + 1 < MaxRuns
    /\ runs' = runs + 1
    /\ prev' = [entries |-> entries, mode |-> mode,
                port_config |-> [d \in DOMAIN submitted |-> submitted[d].port_config]]
    /\ entries' \in RerunSheets
    /\ prior' = store
    /\ pc' = "start"
    /\ mode' = "none" /\ cache' = EmptyMap /\ calls' = <<>> /\ submitted' = EmptyMap
    /\ todo' = <<>> /\ abort' = "none" /\ site_usages' = {}
    /\ roles_res' = NoRoles /\ topo' = Failed("none")
    /\ UNCHANGED <<old_cfg, new_cfg, merged, field, parsed, optic,
                   gateway, gateway6, esi_lag_name, store>>

NextRerun == NextRun \/ Rerun

SpecRerun == InitRerun /\ [][NextRerun]_vars

(***************************************************************************)
(* Properties                                                              *)
(***************************************************************************)
\* C1: the merge returns a mapping over keys(old) union keys(new) in which
\* every key of new carries new's value and every key only in old carries
\* old's value.
C1_MergeNewWins ==
    pc = "merged" =>
        /\ DOMAIN merged = DOMAIN old_cfg \cup DOMAIN new_cfg
        /\ \A p \in DOMAIN new_cfg : merged[p] = new_cfg[p]
        /\ \A p \in DOMAIN old_cfg \ DOMAIN new_cfg : merged[p] = old_cfg[p]

\* old = {P1:A, P2:B}, new = {P2:C, P3:D} gives {P1:A, P2:C, P3:D}
C1_Witness ==
    /\ pc = "merged"
    /\ old_cfg = ("P1" :> "A") @@ ("P2" :> "B")
    /\ new_cfg = ("P2" :> "C") @@ ("P3" :> "D")
    /\ merged = ("P1" :> "A") @@ ("P2" :> "C") @@ ("P3" :> "D")

\* the rows of the sheet, as a set of positions
Rows == 1..Len(entries)

\* the roles the sheet gives to the devices, read off the role cells
SheetRoles(dev) ==
    {entries[k].src_role : k \in {h \in Rows : entries[h].src_device = dev}}
    \cup {entries[k].dst_role : k \in {h \in Rows : entries[h].dst_device = dev}}

SheetDevices ==
    ({entries[k].src_device : k \in Rows} \cup {entries[k].dst_device : k \in Rows})
        \ {None}

IsCoreDev(dev) == dev # None /\ Core \in SheetRoles(dev)

\* the unordered endpoint pair of a row
EndPair(e) == {<<e.src_device, e.src_int>>, <<e.dst_device, e.dst_int>>}

CoreRows == {k \in Rows : IsCoreDev(entries[k].src_device) /\ IsCoreDev(entries[k].dst_device)}

LinkSet == {topo.core_links[k] : k \in 1..Len(topo.core_links)}

\* C5: core_links has exactly one entry per distinct unordered pair of
\* (device, port) endpoints among the rows whose endpoints are both cores.
C5_OneLinkPerPair ==
    (pc = "built" /\ topo.status = "ok") =>
        /\ {{<<l.core1, l.port1>>, <<l.core2, l.port2>>} : l \in LinkSet}
             = {EndPair(entries[k]) : k \in CoreRows}
        /\ Len(topo.core_links) = Cardinality({EndPair(entries[k]) : k \in CoreRows})

\* two rows describe one link with source and destination swapped, a third
\* row is another link, and two links are returned
C5_Witness ==
    /\ pc = "built" /\ topo.status = "ok"
    /\ Len(entries) = 3
    /\ \E i, j \in CoreRows :
          /\ i # j
          /\ entries[i].src_device # entries[i].dst_device
          /\ entries[j].src_device = entries[i].dst_device
          /\ entries[j].src_int = entries[i].dst_int
          /\ entries[j].dst_device = entries[i].src_device
          /\ entries[j].dst_int = entries[i].src_int
    /\ Len(topo.core_links) = 2

\* 1-based position of a link in the order (core1, core2, port1, port2)
LinkIndex(l) == 1 + Cardinality({m \in LinkSet : LinkLess(m, l)})

\* C6: links are numbered 1..N in the order (core1, core2, port1, port2);
\* link i tags core1's port downlink and core2's port uplink if i is odd,
\* the other way round if i is even, both ends with link name i.
C6_AlternatingTags ==
    (pc = "built" /\ topo.status = "ok") =>
        \A l \in LinkSet :
            LET i == LinkIndex(l)
                odd == i % 2 = 1
            IN  /\ topo.core_port_config[l.core1][l.port1] =
                     [usage |-> IF odd THEN "evpn_downlink" ELSE "evpn_uplink",
                      link_name |-> <<"link", i>>]
                /\ topo.core_port_config[l.core2][l.port2] =
                     [usage |-> IF odd THEN "evpn_uplink" ELSE "evpn_downlink",
                      link_name |-> <<"link", i>>]

\* a row is a qualifying aggregation leg
Qualifies(e) ==
    /\ e.ae_idx # NoAe
    /\ IsCoreDev(e.src_device) # IsCoreDev(e.dst_device)

LegRows == {k \in Rows : Qualifies(entries[k])}

AeIds == {entries[k].ae_idx : k \in Rows} \ {NoAe}

LegCount(ae) == Cardinality({k \in LegRows : entries[k].ae_idx = ae})

NumCores == Cardinality({d \in SheetDevices : IsCoreDev(d)})

\* the core-side endpoint of a qualifying leg
CoreEnd(e) ==
    IF IsCoreDev(e.src_device) THEN <<e.src_device, e.src_int>>
    ELSE <<e.dst_device, e.dst_int>>

\* some core port is the core side of two qualifying legs
SharedCorePort ==
    \E i, j \in LegRows : i # j /\ CoreEnd(entries[i]) = CoreEnd(entries[j])

\* some core port is the core side of legs of two different aggregation ids
CrossConflict ==
    \E i, j \in LegRows :
        /\ entries[i].ae_idx # entries[j].ae_idx
        /\ CoreEnd(entries[i]) = CoreEnd(entries[j])

\* the aggregation ids that the returned core port configuration mentions
IdsInResult ==
    UNION {{topo.core_port_config[c][p].ae_idx :
              p \in {q \in DOMAIN topo.core_port_config[c] :
                        topo.core_port_config[c][q].usage = "EVPN-ESI-LAG"}} :
           c \in DOMAIN topo.core_port_config}

\* C7 (as stated): with the two cores the synthesis requires, an aggregation
\* id with one or with three or more qualifying legs makes the synthesis
\* fail with the group-size error, and when every id has two qualifying
\* legs (or none) the synthesis succeeds.
C7_GroupSizeOutcome ==
    (pc = "built" /\ NumCores >= 2) =>
        /\ (\E ae \in AeIds : LegCount(ae) \notin {0, 2}) => topo.status = "ae_size"
        /\ (\A ae \in AeIds : LegCount(ae) \in {0, 2}) => topo.status = "ok"

\* C7 (amended): an id with one or with three or more qualifying legs always
\* makes the synthesis fail; with at least two cores and no core port on two
\* legs the failure is the group-size error, and when every id has two legs
\* (or none) the synthesis succeeds and its result mentions two-leg ids
\* only, ids without a qualifying leg being ignored.
C7_GroupSizeAmended ==
    pc = "built" =>
        /\ (\E ae \in AeIds : LegCount(ae) \notin {0, 2}) => topo.status # "ok"
        /\ (NumCores >= 2 /\ ~SharedCorePort) =>
             /\ (\E ae \in AeIds : LegCount(ae) \notin {0, 2}) => topo.status = "ae_size"
             /\ (\A ae \in AeIds : LegCount(ae) \in {0, 2}) =>
                   /\ topo.status = "ok"
                   /\ IdsInResult \subseteq {ae \in AeIds : LegCount(ae) = 2}

\* one id has three legs on three different core ports, another id has no
\* qualifying leg, and the group-size error is raised
C7_Witness ==
    /\ pc = "built" /\ NumCores >= 2 /\ ~SharedCorePort
    /\ \E ae \in AeIds : LegCount(ae) = 3
    /\ \E ae \in AeIds : LegCount(ae) = 0
    /\ topo.status = "ae_size"

\* C8 (as stated): with the two cores the synthesis requires, a core port
\* that is the core side of legs of two different aggregation ids makes
\* _build_topology fail with the port-conflict error, and no result has a
\* core port in two groups.
C8_PortConflictOutcome ==
    (pc = "built" /\ NumCores >= 2) =>
        /\ CrossConflict => topo.status = "port_conflict"
        /\ topo.status = "ok" => ~SharedCorePort

\* C8 (amended): such a core port always makes _build_topology fail; the
\* failure is the port-conflict error when there are at least two cores and
\* every aggregation id has exactly two qualifying legs; no result has a
\* core port in two groups.
C8_PortConflictAmended ==
    pc = "built" =>
        /\ CrossConflict => topo.status # "ok"
        /\ (CrossConflict /\ NumCores >= 2
              /\ \A ae \in AeIds : LegCount(ae) \in {0, 2}) =>
             topo.status = "port_conflict"
        /\ topo.status = "ok" => ~SharedCorePort

\* two groups of two legs each claim the same core port, and the
\* port-conflict error is raised
C8_Witness ==
    /\ pc = "built" /\ CrossConflict /\ NumCores >= 2
    /\ Cardinality({ae \in AeIds : LegCount(ae) = 2}) = 2
    /\ \A ae \in AeIds : LegCount(ae) \in {0, 2}
    /\ topo.status = "port_conflict"

\* the non-empty roles the sheet gives to a device
NonEmptyRoles(dev) == SheetRoles(dev) \ {None}

RoleConflict == \E d \in SheetDevices : Cardinality(NonEmptyRoles(d)) >= 2

\* C9: _roles_from_interfaces raises the role conflict iff some device has
\* two different non-empty roles; otherwise it maps exactly the devices seen
\* with a non-empty role, each to that role.
C9_RolesOrConflict ==
    pc = "roled" =>
        /\ roles_res.err <=> RoleConflict
        /\ ~RoleConflict =>
             /\ DOMAIN roles_res.roles = {d \in SheetDevices : NonEmptyRoles(d) # {}}
             /\ \A d \in DOMAIN roles_res.roles : NonEmptyRoles(d) = {roles_res.roles[d]}

\* a device gets its role in one row, appears without a role in another,
\* a second device never has a role, and the mapping holds the first only
C9_Witness ==
    /\ pc = "roled" /\ ~roles_res.err
    /\ Len(entries) = 2
    /\ DOMAIN roles_res.roles = {"A"}
    /\ SheetRoles("A") = {Core, None}
    /\ SheetRoles("B") = {None}

\* a token of the form prefix@next-hop with a valid prefix
WellFormedToken(t) ==
    Len(t) = 3 /\ t[2] = "@" /\ t[1] \in Networks4 \cup Networks6 /\ t[3] # "@"

\* a clause of the form prefix via next-hop with a valid prefix
WellFormedClause(c) ==
    Len(c) = 3 /\ c[2] = "via" /\ c[1] \in Networks4 \cup Networks6 \cup {"default"}

ClausePrefix(c) == IF c[1] = "default" THEN "0.0.0.0/0" ELSE c[1]

\* C10: when a token or clause cannot be parsed, every well-formed token or
\* clause of the same field, before or after it, is still in the result.
C10_SkipOnlyOffending ==
    /\ pc = "parsed_static" =>
         \A k \in 1..Len(field) :
            WellFormedToken(field[k]) => field[k][1] \in DOMAIN parsed.result
    /\ pc = "parsed_comment" =>
         \A k \in 1..Len(field) :
            WellFormedClause(field[k]) =>
                ClausePrefix(field[k]) \in DOMAIN parsed.r4 \cup DOMAIN parsed.r6

\* the ports a device had before the run that the synthesis does not produce
UntouchedPorts(d) == DOMAIN prior[d] \ DOMAIN NewPortConfig(d)

\* C2: in UPDATE mode the port configuration submitted for a device holds
\* every port the device had before the run that the synthesis does not
\* produce, with its prior value, whatever the snapshot fetch returned.
C2_PriorPortsPreserved ==
    mode = "UPDATE" =>
        \A d \in DOMAIN submitted :
            \A p \in UntouchedPorts(d) :
                /\ p \in DOMAIN submitted[d].port_config
                /\ submitted[d].port_config[p] = prior[d][p]

SynthesisFailures ==
    {"role_conflict", "need_two_cores", "ae_size", "port_conflict",
     "bad_gateway", "address_overflow"}

\* C3: a run that a failure of the synthesis aborts has issued no
\* submission call.
C3_NoSubmissionBeforeAbort ==
    (pc = "aborted" /\ abort \in SynthesisFailures) =>
        \A k \in 1..Len(calls) : ~IsSubmission(calls[k])

\* C4: in UPDATE mode the snapshot of every participating device is fetched
\* before the first submission call and shows the device as it was before
\* the run; in CREATE mode nothing is fetched and nothing is merged.
C4_SnapshotsBeforeSubmission ==
    /\ \A i, j \in 1..Len(calls) :
          (calls[i][1] = "GET_DEVICE" /\ IsSubmission(calls[j])) => i < j
    /\ (mode = "UPDATE" /\ \E j \in 1..Len(calls) : IsSubmission(calls[j])) =>
          \A d \in DOMAIN roles_res.roles :
              /\ \E i \in 1..Len(calls) : calls[i] = <<"GET_DEVICE", d>>
              /\ d \in DOMAIN cache
              /\ cache[d] # EmptyMap => cache[d]["port_config"] = prior[d]
    /\ mode = "CREATE" =>
          /\ \A i \in 1..Len(calls) : calls[i][1] # "GET_DEVICE"
          /\ cache = EmptyMap
          /\ \A d \in DOMAIN submitted : submitted[d].port_config = NewPortConfig(d)

\* an UPDATE run over three devices has finished; the snapshot of X still
\* shows the ports X had before the run although the run has rewritten them
C4_Witness ==
    /\ mode = "UPDATE" /\ pc = "done"
    /\ DOMAIN cache = {"A", "B", "X"}
    /\ cache["X"] # EmptyMap
    /\ cache["X"]["port_config"] = prior["X"]
    /\ store["X"] # prior["X"]

\* position of a core among the cores in lexicographic order
CoreRank(d) ==
    1 + Cardinality({c \in CoreDevices(roles_res.roles) : Ord[c] < Ord[d]})

\* the low 24 bits of an IPv4 address, as a number
Low24(ip) == ip[2] * 65536 + ip[3] * 256 + ip[4]

\* the low 31 bits of an IPv6 address, as a number
Low31(ip) == (ip[7] % 32768) * 65536 + ip[8]

\* number of leading one bits of a netmask octet
OnesOf == (0 :> 0) @@ (128 :> 1) @@ (192 :> 2) @@ (224 :> 3) @@ (240 :> 4)
          @@ (248 :> 5) @@ (252 :> 6) @@ (254 :> 7) @@ (255 :> 8)

\* the prefix length a dotted netmask stands for
MaskLength(mask) == OnesOf[mask[1]] + OnesOf[mask[2]] + OnesOf[mask[3]] + OnesOf[mask[4]]

\* the IPv4 part of an assignment is gateway + offset with the gateway's mask
Secondary4(e, offset) ==
    LET sum == Low24(gateway.ip) + offset
    IN  /\ e.type = "static"
        /\ Low24(e.ip) = sum % 16777216
        /\ e.ip[1] = gateway.ip[1] + (sum \div 16777216)
        /\ MaskLength(e.netmask) = gateway.prefixlen
        /\ \A k \in 1..3 : e.netmask[k] < 255 => e.netmask[k + 1] = 0

\* the IPv6 part of an assignment is gateway + offset with the gateway's
\* prefix length
Secondary6(e, offset) ==
    LET sum == Low31(gateway6.ip) + offset
    IN  /\ e.type6 = "static"
        /\ Low31(e.ip6) = sum
        /\ e.ip6[7] \div 32768 = gateway6.ip[7] \div 32768
        /\ \A k \in 1..6 : e.ip6[k] = gateway6.ip[k]
        /\ e.netmask6 = <<"/", gateway6.prefixlen>>

\* C11: the first core in lexicographic order has offset 1, the second has
\* offset 2; the secondary address submitted for such a core is, per family,
\* the gateway's host address plus the core's offset with the gateway's mask
\* or prefix length; a network without gateway gets no assignment.
C11_SecondaryAddresses ==
    \A d \in DOMAIN submitted :
        (roles_res.roles[d] = Core /\ CoreRank(d) <= 2) =>
            LET cfg == submitted[d].other_ip_configs
                has4 == gateway.kind = "iface"
                has6 == gateway6.kind = "iface"
            IN  /\ ("net1" \in DOMAIN cfg) <=> (has4 \/ has6)
                /\ has4 => Secondary4(cfg["net1"], CoreRank(d))
                /\ has6 => Secondary6(cfg["net1"], CoreRank(d))
                /\ (has6 /\ ~has4) => "ip" \notin DOMAIN cfg["net1"]
                /\ (has4 /\ ~has6) => "ip6" \notin DOMAIN cfg["net1"]

\* with gateways 10.0.0.1/24 and 2001:db8::1/64 the first core A got
\* 2001:db8::2/64 and the second core B got 10.0.0.3 with mask 255.255.255.0
C11_Witness ==
    /\ {"A", "B"} \subseteq DOMAIN submitted
    /\ CoreRank("A") = 1 /\ CoreRank("B") = 2
    /\ gateway.kind = "iface" /\ gateway.ip = <<10, 0, 0, 1>>
    /\ gateway6.kind = "iface" /\ gateway6.ip = <<8193, 3512, 0, 0, 0, 0, 0, 1>>
    /\ submitted["A"].other_ip_configs["net1"].ip6 = <<8193, 3512, 0, 0, 0, 0, 0, 2>>
    /\ submitted["A"].other_ip_configs["net1"].netmask6 = <<"/", 64>>
    /\ submitted["B"].other_ip_configs["net1"].ip = <<10, 0, 0, 3>>
    /\ submitted["B"].other_ip_configs["net1"].netmask = <<255, 255, 255, 0>>

\* C12: in every result of _build_topology the core-side port of each
\* aggregation leg is in that core's port-configuration map with the ESI-LAG
\* usage, aggregated, esilag and the group's aggregation id, also when the
\* port is an endpoint of a core-to-core link record.
C12_LegPortsTaggedEsiLag ==
    (pc = "built" /\ topo.status = "ok") =>
        \A k \in LegRows :
            LET core == CoreEnd(entries[k])
                cpc == topo.core_port_config
            IN  /\ core[1] \in DOMAIN cpc
                /\ core[2] \in DOMAIN cpc[core[1]]
                /\ cpc[core[1]][core[2]] =
                       [usage |-> "EVPN-ESI-LAG", aggregated |-> TRUE,
                        esilag |-> TRUE, ae_idx |-> entries[k].ae_idx]

\* the access-side endpoint of a qualifying leg
AccessEnd(e) ==
    IF IsCoreDev(e.src_device) THEN <<e.dst_device, e.dst_int>>
    ELSE <<e.src_device, e.src_int>>

LegsOf(ae) == {k \in LegRows : entries[k].ae_idx = ae}

AccessDevicesOf(ae) == {AccessEnd(entries[k])[1] : k \in LegsOf(ae)}

AccessPortsOf(ae) == {AccessEnd(entries[k])[2] : k \in LegsOf(ae)}

\* C13: for every aggregation group the access port-configuration map has,
\* under the group's single access device, an entry whose key is the sorted,
\* comma-joined, deduplicated set of the two access-side ports and whose
\* aggregation id is the group's, also when one access device is the access
\* side of several groups; the two legs of a group have the same access
\* device.
C13_AccessEntryPerGroup ==
    (pc = "built" /\ topo.status = "ok") =>
        \A ae \in AeIds :
            LegsOf(ae) # {} =>
                /\ Cardinality(AccessDevicesOf(ae)) = 1
                /\ \A d \in AccessDevicesOf(ae) :
                      LET key == CommaJoin(SortedNames(AccessPortsOf(ae)))
                          apc == topo.access_port_config
                      IN  /\ d \in DOMAIN apc
                          /\ key \in DOMAIN apc[d]
                          /\ apc[d][key] = [usage |-> "EVPN-ESI-LAG",
                                            aggregated |-> TRUE, ae_idx |-> ae]

\* number of "@" in a token
AtCount(t) == Cardinality({k \in 1..Len(t) : t[k] = "@"})

\* C14: a token of a static-route field contributes a route only if it has
\* exactly one "@" with a non-empty prefix before it and a non-empty next
\* hop after it; a token with no "@" or with two or more "@" is skipped and
\* adds no entry.
C14_ExactlyOneAt ==
    pc = "parsed_static" =>
        \A prefix \in DOMAIN parsed.result :
            \E k \in 1..Len(field) :
                /\ AtCount(field[k]) = 1
                /\ Len(field[k]) = 3 /\ field[k][2] = "@"
                /\ field[k][1] = prefix
                /\ parsed.result[prefix] = [via |-> <<field[k][3]>>]

\* a port name with a trailing ":<digits>" suffix stripped, any other name
\* unchanged
SuffixStripped(name) ==
    IF Len(name) >= 2 /\ name[Len(name)] \in Digits
    THEN SubSeq(name, 1, Len(name) - 1)
    ELSE name

\* a port name "<base>:<digits>" whose base is not empty and has no ":"
\* stripped to its base, any other name unchanged
ChannelStripped(name) ==
    IF Len(name) = 2 /\ name[1] # "" /\ name[2] \in Digits
    THEN <<name[1]>>
    ELSE name

CarriesSettings(e) == e.speed # None \/ e.channelized # None

\* the port names the records mention
NamesIn == ({entries[k].src_int : k \in Rows} \cup {entries[k].dst_int : k \in Rows})
           \ {NoPort}

\* the records that carry a setting and have the device and base port as
\* source or destination, under a given notion of base port
RecordsFor(Base(_), d, b) ==
    {k \in Rows :
        /\ CarriesSettings(entries[k])
        /\ \/ /\ entries[k].src_device = d /\ entries[k].src_int # NoPort
              /\ Base(entries[k].src_int) = b
           \/ /\ entries[k].dst_device = d /\ entries[k].dst_int # NoPort
              /\ Base(entries[k].dst_int) = b}

\* x holds exactly the settings the record e carries
SettingsOf(x, e) ==
    /\ ("speed" \in DOMAIN x) <=> (e.speed # None)
    /\ ("channelized" \in DOMAIN x) <=> (e.channelized # None)
    /\ DOMAIN x \subseteq {"speed", "channelized"}
    /\ e.speed # None => x["speed"] = e.speed
    /\ e.channelized # None => x["channelized"] = e.channelized

\* the map has an entry for a device and base port iff some record carries
\* a setting for them, and the entry is what the first such record carries
FirstRecordWins(Base(_)) ==
    \A d \in {"A", "B"} :
        \A b \in NamesIn \cup {Base(n) : n \in NamesIn} \cup DOMAIN Get(optic, d) :
            LET recs == RecordsFor(Base, d, b)
                first == CHOOSE k \in recs : \A h \in recs : k <= h
            IN  IF recs = {}
                THEN b \notin DOMAIN Get(optic, d)
                ELSE /\ b \in DOMAIN Get(optic, d)
                     /\ SettingsOf(optic[d][b], entries[first])

\* C15: the entry of the optic-port map for a device and base port (the port
\* name with a trailing ":<digits>" suffix stripped, any other name
\* unchanged) is the speed/channelized settings of the first record in input
\* order that carries a setting and has the device and base port as source
\* or destination; a record that carries neither creates no entry.
C15_FirstRecordWins ==
    pc = "optic_built" => FirstRecordWins(SuffixStripped)

\* C15 amended: the same with the base port of a name "<base>:<digits>"
\* being <base> only when <base> is not empty and holds no ":"; every other
\* name is its own base port.
C15_FirstRecordWinsAmended ==
    pc = "optic_built" => FirstRecordWins(ChannelStripped)

\* A's et0 is named by three records as et0:1 with speed 10g, then as et0
\* with channelized set, then as destination with 25g: the entry is 10g only
C15_Witness ==
    /\ pc = "optic_built"
    /\ Len(entries) = 3
    /\ entries[1] = OpticEntry("A", <<"et0", "1">>, "B", <<"et1">>, "10g", None)
    /\ entries[2] = OpticEntry("A", <<"et0">>, "B", <<"et1">>, None, "True")
    /\ entries[3] = OpticEntry("B", <<"et1">>, "A", <<"et0">>, "25g", "False")
    /\ optic["A"][<<"et0">>] = ("speed" :> "10g")
    /\ optic["B"][<<"et1">>] = ("speed" :> "10g")

\* C17: for every value of the fabric setting esi_lag_name, every usage tag
\* on an aggregated port in the port configurations submitted for the
\* devices is a key of the port_usages table that the site settings of the
\* same run submitted.
C17_UsageTagsDeclared ==
    \A d \in DOMAIN submitted :
        \A p \in DOMAIN submitted[d].port_config :
            LET e == submitted[d].port_config[p]
            IN  ("aggregated" \in DOMAIN e /\ e["aggregated"]) =>
                    e["usage"] \in site_usages

\* C16: over UPDATE runs against a device that has stored what the previous
\* run submitted for it, the set of submitted port ids never shrinks: a port
\* the previous run submitted and this run's synthesis does not produce is
\* submitted again with the previous value; a run on the same input submits
\* the same port configuration.
C16_SubmittedPortsNeverShrink ==
    (runs >= 1 /\ prev.mode = "UPDATE" /\ mode = "UPDATE") =>
        \A d \in DOMAIN submitted \cap DOMAIN prev.port_config :
            prior[d] = prev.port_config[d] =>
                LET now == submitted[d].port_config
                    before == prev.port_config[d]
                IN  /\ DOMAIN before \subseteq DOMAIN now
                    /\ \A p \in DOMAIN before \ DOMAIN NewPortConfig(d) :
                          now[p] = before[p]
                    /\ entries = prev.entries => now = before

\* the sheet with source and destination of record k exchanged
Swapped(es, k) ==
    [es EXCEPT ![k] = Entry(es[k].dst_device, es[k].dst_role, es[k].dst_int,
                            es[k].src_device, es[k].src_role, es[k].src_int,
                            es[k].ae_idx)]

\* the sheet with the records i and j exchanged
Transposed(es, i, j) == [es EXCEPT ![i] = es[j], ![j] = es[i]]

\* C18: the uplink/downlink tag and the link name of every core port depend
\* only on the set of physical links: exchanging source and destination of
\* a core-to-core record, or reordering the records, leaves the core port
\* configuration as it is.
C18_TagsIgnoreDirectionAndOrder ==
    pc = "built" =>
        /\ \A k \in CoreRows :
              _build_topology(Swapped(entries, k), roles_res.roles).core_port_config
                  = topo.core_port_config
        /\ \A i, j \in Rows :
              _build_topology(Transposed(entries, i, j), roles_res.roles).core_port_config
                  = topo.core_port_config

====
